---- MODULE Spec2Model ----
(***************************************************************************)
(* Model of src/main.py: the ingredient tokenizer                          *)
(* (normalize_ingredient_string), the ingredient statistics aggregator     *)
(* (build_ingredient_stats), the listing client                            *)
(* (fetch_products_for_search_term) and the pipeline (main).               *)
(*                                                                         *)
(* Strings are sequences of one-character strings.  Ratings are integers   *)
(* in tenths (4.2 is 42); rounded averages are integers in thousandths     *)
(* (4.12 is 4120).  Python's None is NoneStr for an ingredient text, None  *)
(* for an id or a name and NoneNum for a number.                           *)
(***************************************************************************)
EXTENDS Integers, Sequences, FiniteSets, TLC

VARIABLES
    pc,                     \* position of the running function
    ingredient_str,         \* normalize_ingredient_string: its argument
    cleaned,                \* normalize_ingredient_string: its result
    term,                   \* main: index into search_terms
    page,                   \* fetch_products_for_search_term: loop variable
    products,               \* fetch_products_for_search_term: local list
    last_items,             \* items of the last page the API returned
    last_call,              \* <<term, page>> of the last search request
    failed_call,            \* <<term, page>> of the failed search request
    all_products,           \* main: stubs of all terms
    unique_products,        \* main: list(seen.values())
    i,                      \* main: enumerate index of the detail loop
    detail_log,             \* outcome of every detail request made
    products_with_details,  \* main local / build_ingredient_stats argument
    p_idx,                  \* build_ingredient_stats: position of p
    ingredient_to_ratings,  \* build_ingredient_stats: the defaultdict
    stats,                  \* build_ingredient_stats: result list
    products_raw,           \* rows of data/products_raw.csv, None = no file
    ingredient_report       \* rows of data/ingredient_report.csv

vars == <<pc, ingredient_str, cleaned, term, page, products, last_items,
          last_call, failed_call, all_products, unique_products, i,
          detail_log, products_with_details, p_idx, ingredient_to_ratings,
          stats, products_raw, ingredient_report>>

tokVars == <<ingredient_str, cleaned>>
listVars == <<term, page, products, last_items, last_call, failed_call,
              all_products>>
detailVars == <<unique_products, i, detail_log>>
aggVars == <<p_idx, ingredient_to_ratings, stats>>
fileVars == <<products_raw, ingredient_report>>

None == "None"           \* None where an id or a name is expected
NoneStr == <<"None">>    \* None where an ingredient text is expected
NoneNum == -1            \* None where a number is expected

(***************************************************************************)
(* Bounds of the model.                                                    *)
(***************************************************************************)
MaxLen == 6           \* longest enumerated ingredient string
MaxProducts == 6      \* longest enumerated list given to the aggregator
MaxStubs == 3         \* most stubs collected over one run of main
MaxPageItems == 1     \* most items on one result page

(***************************************************************************)
(* Generic sequence helpers.                                               *)
(***************************************************************************)
Range(s) == {s[k] : k \in 1..Len(s)}

SeqsUpTo(S, n) == UNION {[1..k -> S] : k \in 0..n}

RECURSIVE SumSeq(_)
SumSeq(s) == IF s = <<>> THEN 0 ELSE Head(s) + SumSeq(Tail(s))

(***************************************************************************)
(* Characters.                                                             *)
(***************************************************************************)
UpperLetters == <<"A","B","C","D","E","F","G","H","I","J","K","L","M",
                  "N","O","P","Q","R","S","T","U","V","W","X","Y","Z">>
LowerLetters == <<"a","b","c","d","e","f","g","h","i","j","k","l","m",
                  "n","o","p","q","r","s","t","u","v","w","x","y","z">>
Digits == {"0","1","2","3","4","5","6","7","8","9"}
Whitespace == {" ", "\t", "\n"}
\* faulty variant: whitespace separates ingredients too
Delims_with_space == {";", ",", "/", "(", ")", " "}
Delims == {";", ",", "/", "(", ")"}
AlnumLower == Range(LowerLetters) \cup Digits

\* str.lower() on one character
lower_char(c) ==
    IF \E k \in 1..26 : UpperLetters[k] = c
    THEN LowerLetters[CHOOSE k \in 1..26 : UpperLetters[k] = c]
    ELSE c

\* str.lower()
str_lower(s) == [k \in 1..Len(s) |-> lower_char(s[k])]

\* s with its leading run of characters of C removed
RECURSIVE lstrip_chars(_, _)
lstrip_chars(s, C) ==
    IF s /= <<>> /\ Head(s) \in C THEN lstrip_chars(Tail(s), C) ELSE s

\* s with its trailing run of characters of C removed
RECURSIVE rstrip_chars(_, _)
rstrip_chars(s, C) ==
    IF s /= <<>> /\ s[Len(s)] \in C
    THEN rstrip_chars(SubSeq(s, 1, Len(s) - 1), C) ELSE s

\* str.strip()
str_strip(s) == rstrip_chars(lstrip_chars(s, Whitespace), Whitespace)

\* faulty variant: only the leading run is removed
re_sub_leading_only(token) ==
    lstrip_chars(token, Range(token) \ AlnumLower)

\* re.sub(r"^[^a-z0-9]+|[^a-z0-9]+$", "", token): the first alternative
\* removes the leading run of characters outside a-z0-9, the second the
\* trailing run (a final newline is itself outside a-z0-9).
re_sub_edges(token) ==
    LET NonAlnum == Range(token) \ AlnumLower
    IN  rstrip_chars(lstrip_chars(token, NonAlnum), NonAlnum)

\* re.split(r"[;,/()]+", s) from position k on, cur the fragment so far
RECURSIVE re_split_from(_, _, _)
re_split_from(s, k, cur) ==
    IF k > Len(s) THEN <<cur>>
    ELSE IF s[k] \in Delims
         THEN IF k > 1 /\ s[k - 1] \in Delims
              THEN re_split_from(s, k + 1, cur)
              ELSE <<cur>> \o re_split_from(s, k + 1, <<>>)
         ELSE re_split_from(s, k + 1, Append(cur, s[k]))

re_split(s) == re_split_from(s, 1, <<>>)

MinTokenLen == 3    \* len(token) > 2

\* the body of the loop "for part in parts" applied to the rest of parts
RECURSIVE clean_parts(_)
clean_parts(parts) ==
    IF parts = <<>> THEN <<>>
    ELSE LET token == re_sub_edges(str_lower(str_strip(Head(parts))))
         IN  (IF Len(token) >= MinTokenLen THEN <<token>> ELSE <<>>)
             \o clean_parts(Tail(parts))

normalize_ingredient_string(s) ==
    IF s = NoneStr \/ s = <<>> THEN <<>>
    ELSE clean_parts(re_split(s))

(***************************************************************************)
(* Inputs.                                                                 *)
(***************************************************************************)
TokAlphabet == {"a", "B", " ", ",", "(", "-"}

\* "Water, Glycerin; Fragrance(Parfum)"
StrWaterGlycerin ==
    <<"W","a","t","e","r",","," ","G","l","y","c","e","r","i","n",";"," ",
      "F","r","a","g","r","a","n","c","e","(","P","a","r","f","u","m",")">>
\* "Water, CI 19140, pH"
StrWaterCI ==
    <<"W","a","t","e","r",","," ","C","I"," ","1","9","1","4","0",","," ",
      "p","H">>
\* "Aqua, Oil"
StrAquaOil == <<"A","q","u","a",","," ","O","i","l">>
\* "oil/AQUA (Aqua); Zinc"
StrOilAquaZinc ==
    <<"o","i","l","/","A","Q","U","A"," ","(","A","q","u","a",")",";"," ",
      "Z","i","n","c">>
\* "Aqua"
StrAqua == <<"A","q","u","a">>
\* " ;Café\n/ -- ,(é1x9É.)"
StrEdges ==
    <<" ",";","C","a","f","é","\n","/"," ","-","-"," ",",","(","é","1","x",
      "9","É",".",")">>
\* "Hyaluronic Acid, Water"
StrHyaluronic ==
    <<"H","y","a","l","u","r","o","n","i","c"," ","A","c","i","d",","," ",
      "W","a","t","e","r">>

TokExamples ==
    {NoneStr, StrWaterGlycerin, StrWaterCI, StrAquaOil, StrOilAquaZinc,
     StrAqua, StrEdges, StrHyaluronic}

TokInputs == SeqsUpTo(TokAlphabet, MaxLen) \cup TokExamples

Product(id, rating, ingredients) ==
    [id |-> id, name |-> id, rating |-> rating, reviews_count |-> NoneNum,
     ingredients |-> ingredients]

AggPool ==
    {Product("a", 40, StrAquaOil), Product("b", 45, StrOilAquaZinc),
     Product("c", NoneNum, StrAqua), Product("e", 40, StrAqua)}

\* six products, "hyaluronic acid" in five of them, rated 4.0, 4.5, 4.2,
\* 3.8 and 4.1
Scenario6 ==
    <<Product("h1", 40, StrHyaluronic), Product("h2", 45, StrHyaluronic),
      Product("h3", 42, StrHyaluronic), Product("w", 50, NoneStr),
      Product("h4", 38, StrHyaluronic), Product("h5", 41, StrHyaluronic)>>

\* a product with the empty ingredient text among five that count
WithEmptyText ==
    <<Product("a", 40, StrAquaOil), Product("d", 45, <<>>),
      Product("a", 40, StrAquaOil), Product("b", 45, StrOilAquaZinc),
      Product("a", 40, StrAquaOil), Product("a", 40, StrAquaOil)>>

AggInputs == SeqsUpTo(AggPool, MaxProducts) \cup {Scenario6, WithEmptyText}

(***************************************************************************)
(* build_ingredient_stats.                                                 *)
(* ingredient_to_ratings is the defaultdict(list) as the sequence of its   *)
(* entries in insertion order, which is the order .items() yields.         *)
(***************************************************************************)
MinProducts == 5    \* "if len(ratings) < 5: continue"

\* ingredient_to_ratings[ing].append(rating)
dict_append(m, ing, rating) ==
    IF \E k \in 1..Len(m) : m[k].ingredient = ing
    THEN [k \in 1..Len(m) |->
             IF m[k].ingredient = ing
             THEN [m[k] EXCEPT !.ratings = Append(@, rating)]
             ELSE m[k]]
    ELSE Append(m, [ingredient |-> ing, ratings |-> <<rating>>])

\* "for ing in unique_ings: ingredient_to_ratings[ing].append(rating)",
\* order being the order in which the set is iterated
RECURSIVE append_each(_, _, _)
append_each(m, order, rating) ==
    IF order = <<>> THEN m
    ELSE append_each(dict_append(m, Head(order), rating), Tail(order), rating)

\* faulty variant: the token list is iterated as it is, without set()
list_iteration_order(ingredients) == {ingredients}

\* The orders in which "for ing in set(ingredients)" may yield the tokens:
\* the iteration order of a set of strings is not fixed by the language
\* (string hashes are randomised per process), so it is any enumeration
\* of the distinct tokens.
set_iteration_orders(ingredients) ==
    LET unique_ings == Range(ingredients)
    IN  {o \in [1..Cardinality(unique_ings) -> unique_ings] :
            Range(o) = unique_ings}

\* faulty variant: the average is cut off after the third decimal
round3_truncated(num, den) == (num * 100) \div den

\* round(x, 3) of x = num / den (num in tenths), in thousandths: the
\* nearest thousandth, an exact tie going to the even one.
\* statistics.mean is exact on its inputs.
round3(num, den) ==
    LET scaled == num * 100
        q == scaled \div den
        r == scaled % den
    IN  IF 2 * r < den THEN q
        ELSE IF 2 * r > den THEN q + 1
        ELSE IF q % 2 = 0 THEN q ELSE q + 1

\* the loop "for ingredient, ratings in ingredient_to_ratings.items()"
RECURSIVE compute_stats(_)
compute_stats(m) ==
    IF m = <<>> THEN <<>>
    ELSE LET ratings == Head(m).ratings
         IN  (IF Len(ratings) < MinProducts THEN <<>>
              ELSE << [ingredient |-> Head(m).ingredient,
                       product_count |-> Len(ratings),
                       avg_rating_with_ingredient |->
                           round3(SumSeq(ratings), Len(ratings))] >>)
             \o compute_stats(Tail(m))

\* key(a) >= key(b) for key = (avg_rating_with_ingredient, product_count)
key_ge(a, b) ==
    \/ a.avg_rating_with_ingredient > b.avg_rating_with_ingredient
    \/ /\ a.avg_rating_with_ingredient = b.avg_rating_with_ingredient
       /\ a.product_count >= b.product_count

\* faulty variant: x goes before the rows whose key equals its own
insert_desc_unstable(sorted, x) ==
    LET k == Cardinality({j \in 1..Len(sorted) :
                             key_ge(sorted[j], x) /\ ~key_ge(x, sorted[j])})
    IN  SubSeq(sorted, 1, k) \o <<x>> \o SubSeq(sorted, k + 1, Len(sorted))

\* x placed into the descending list after every row whose key is >= its own
insert_desc(sorted, x) ==
    LET k == Cardinality({j \in 1..Len(sorted) : key_ge(sorted[j], x)})
    IN  SubSeq(sorted, 1, k) \o <<x>> \o SubSeq(sorted, k + 1, Len(sorted))

\* stats.sort(key=..., reverse=True): a stable sort, rows with equal keys
\* keep their original order also under reverse=True
RECURSIVE sort_from(_, _)
sort_from(sorted, rest) ==
    IF rest = <<>> THEN sorted
    ELSE sort_from(insert_desc(sorted, Head(rest)), Tail(rest))

sort_stats(s) == sort_from(<<>>, s)

\* "if rating is None or not ingredient_str: continue"
skips_product(p) ==
    p.rating = NoneNum \/ p.ingredients = NoneStr \/ p.ingredients = <<>>

AggSkip ==
    /\ pc = "agg_loop"
    /\ p_idx <= Len(products_with_details)
    /\ skips_product(products_with_details[p_idx])
    /\ p_idx' = p_idx + 1
    /\ UNCHANGED <<pc, tokVars, listVars, detailVars, products_with_details,
                   ingredient_to_ratings, stats, fileVars>>

AggAdd ==
    /\ pc = "agg_loop"
    /\ p_idx <= Len(products_with_details)
    /\ ~skips_product(products_with_details[p_idx])
    /\ LET p == products_with_details[p_idx]
           ingredients == normalize_ingredient_string(p.ingredients)
       IN  \E order \in set_iteration_orders(ingredients) :
              ingredient_to_ratings' =
                  append_each(ingredient_to_ratings, order, p.rating)
    /\ p_idx' = p_idx + 1
    /\ UNCHANGED <<pc, tokVars, listVars, detailVars, products_with_details,
                   stats, fileVars>>

AggStats ==
    /\ pc = "agg_loop"
    /\ p_idx > Len(products_with_details)
    /\ stats' = sort_stats(compute_stats(ingredient_to_ratings))
    /\ pc' = "agg_return"
    /\ UNCHANGED <<tokVars, listVars, detailVars, products_with_details,
                   p_idx, ingredient_to_ratings, fileVars>>

(***************************************************************************)
(* normalize_ingredient_string called on its own.                          *)
(***************************************************************************)
TokEmpty ==
    /\ pc = "tok_call"
    /\ (ingredient_str = NoneStr \/ ingredient_str = <<>>)
    /\ cleaned' = normalize_ingredient_string(ingredient_str)
    /\ pc' = "tok_return"
    /\ UNCHANGED <<ingredient_str, listVars, detailVars,
                   products_with_details, aggVars, fileVars>>

TokNormalize ==
    /\ pc = "tok_call"
    /\ ~(ingredient_str = NoneStr \/ ingredient_str = <<>>)
    /\ cleaned' = normalize_ingredient_string(ingredient_str)
    /\ pc' = "tok_return"
    /\ UNCHANGED <<ingredient_str, listVars, detailVars,
                   products_with_details, aggVars, fileVars>>

(***************************************************************************)
(* fetch_products_for_search_term and fetch_product_details.               *)
(* A JSON record is a record with every field the code reads, a missing    *)
(* key or a null holding the None of its type.                             *)
(***************************************************************************)
search_terms == <<"moisturizer", "serum", "cleanser", "foundation">>
max_pages == 3

\* Python's "a or b" on ids: None and "" are falsy
or_str(a, b) == IF a = None \/ a = "" THEN b ELSE a

\* Python's "a or b" on numbers: None and 0 are falsy
or_num(a, b) == IF a = NoneNum \/ a = 0 THEN b ELSE a

\* Python's "a or b" on texts: None and "" are falsy
or_text(a, b) == IF a = NoneStr \/ a = <<>> THEN b ELSE a

\* float(rating), the rating being a JSON number: the same number
to_float(r) == r

\* the body of "for p in items" on the rest of the page
RECURSIVE page_stubs(_)
page_stubs(items) ==
    IF items = <<>> THEN <<>>
    ELSE LET p == Head(items)
             product_id == or_str(p.id, p.productId)
             name == p.name
             rating == or_num(p.rating, p.averageRating)
             reviews_count == or_num(p.reviewsCount, p.reviewCount)
         IN  (IF product_id /= None /\ product_id /= ""
                 /\ rating /= NoneNum
              THEN << [id |-> product_id, name |-> name,
                       rating |-> to_float(rating),
                       reviews_count |-> reviews_count] >>
              ELSE <<>>)
             \o page_stubs(Tail(items))

\* the dict fetch_product_details returns for the response data
product_details(data) ==
    [ingredients |-> or_text(data.ingredients, data.ingredientList),
     rating |-> or_num(data.rating, data.averageRating),
     raw |-> data]

Item(id, productId, name, rating, averageRating, reviewsCount, reviewCount) ==
    [id |-> id, productId |-> productId, name |-> name, rating |-> rating,
     averageRating |-> averageRating, reviewsCount |-> reviewsCount,
     reviewCount |-> reviewCount]

ItemPool ==
    {Item("p1", None, "A", 40, NoneNum, 10, NoneNum),
     Item(None, "p1", "B", NoneNum, 45, NoneNum, 7),
     Item("p2", None, "C", 0, NoneNum, NoneNum, NoneNum),
     Item("p2", "p9", "D", 38, 45, 0, 3),
     Item(None, None, "E", 40, NoneNum, 5, NoneNum),
     Item("p3", None, None, NoneNum, 0, NoneNum, NoneNum)}

Pages == UNION {[1..n -> ItemPool] : n \in 1..MaxPageItems}

DetailData(ingredients, ingredientList, rating, averageRating) ==
    [ingredients |-> ingredients, ingredientList |-> ingredientList,
     rating |-> rating, averageRating |-> averageRating]

DetailResponses ==
    {DetailData(<<>>, StrAquaOil, 0, NoneNum),
     DetailData(NoneStr, NoneStr, NoneNum, 45)}

\* faulty variant: a failed search request ends the term like an empty page
SearchFail_swallowed ==
    /\ pc = "search"
    /\ last_call' = <<term, page>>
    /\ failed_call' = <<term, page>>
    /\ pc' = "search_return"
    /\ UNCHANGED <<tokVars, term, page, products, last_items, all_products,
                   detailVars, products_with_details, aggVars, fileVars>>

\* call_api raises on a status other than 200; nothing between the call
\* and the top of main catches it
SearchFail ==
    /\ pc = "search"
    /\ last_call' = <<term, page>>
    /\ failed_call' = <<term, page>>
    /\ pc' = "aborted"
    /\ UNCHANGED <<tokVars, term, page, products, last_items, all_products,
                   detailVars, products_with_details, aggVars, fileVars>>

\* "if not items: break"
SearchEmpty ==
    /\ pc = "search"
    /\ last_call' = <<term, page>>
    /\ last_items' = <<>>
    /\ pc' = "search_return"
    /\ UNCHANGED <<tokVars, term, page, products, failed_call, all_products,
                   detailVars, products_with_details, aggVars, fileVars>>

\* a page with items; after page max_pages the for loop is over
SearchItems ==
    /\ pc = "search"
    /\ \E items \in Pages :
          /\ Len(all_products) + Len(products) + Len(page_stubs(items))
                 <= MaxStubs
          /\ last_items' = items
          /\ products' = products \o page_stubs(items)
    /\ last_call' = <<term, page>>
    /\ page' = page + 1
    /\ pc' = IF page = max_pages THEN "search_return" ELSE "search"
    /\ UNCHANGED <<tokVars, term, failed_call, all_products, detailVars,
                   products_with_details, aggVars, fileVars>>

\* "return products", "all_products.extend(prods)" and the next term
SearchReturn ==
    /\ pc = "search_return"
    /\ all_products' = all_products \o products
    /\ products' = <<>>
    /\ last_items' = <<>>
    /\ page' = 1
    /\ IF term < Len(search_terms)
       THEN term' = term + 1 /\ pc' = "search"
       ELSE term' = term /\ pc' = "dedupe"
    /\ UNCHANGED <<tokVars, last_call, failed_call, detailVars,
                   products_with_details, aggVars, fileVars>>

(***************************************************************************)
(* main.                                                                   *)
(***************************************************************************)
\* faulty variant: an id already seen keeps its first record
seen_put_first_wins(seen, p) ==
    IF \E k \in 1..Len(seen) : seen[k].id = p.id
    THEN seen
    ELSE Append(seen, p)

\* seen[p["id"]] = p on the dict seen, kept as its values in insertion
\* order: an existing key keeps its position and gets the new value
seen_put(seen, p) ==
    IF \E k \in 1..Len(seen) : seen[k].id = p.id
    THEN [k \in 1..Len(seen) |-> IF seen[k].id = p.id THEN p ELSE seen[k]]
    ELSE Append(seen, p)

\* "for p in all_products: seen[p["id"]] = p", then list(seen.values())
RECURSIVE dedupe_from(_, _)
dedupe_from(seen, rest) ==
    IF rest = <<>> THEN seen
    ELSE dedupe_from(seen_put(seen, Head(rest)), Tail(rest))

Dedupe ==
    /\ pc = "dedupe"
    /\ unique_products' = dedupe_from(<<>>, all_products)
    /\ i' = 1
    /\ pc' = "details"
    /\ UNCHANGED <<tokVars, listVars, detail_log, products_with_details,
                   aggVars, fileVars>>

\* faulty variant: the exception of a failed detail request is not caught
DetailFail_propagates ==
    /\ pc = "details"
    /\ i <= Len(unique_products)
    /\ detail_log' = Append(detail_log,
                            [id |-> unique_products[i].id, ok |-> FALSE])
    /\ pc' = "aborted"
    /\ UNCHANGED <<tokVars, listVars, unique_products, i,
                   products_with_details, aggVars, fileVars>>

\* "except Exception as e: print(...); continue"
DetailFail ==
    /\ pc = "details"
    /\ i <= Len(unique_products)
    /\ detail_log' = Append(detail_log,
                            [id |-> unique_products[i].id, ok |-> FALSE])
    /\ i' = i + 1
    /\ UNCHANGED <<pc, tokVars, listVars, unique_products,
                   products_with_details, aggVars, fileVars>>

DetailOk ==
    /\ pc = "details"
    /\ i <= Len(unique_products)
    /\ \E data \in DetailResponses :
          LET p == unique_products[i]
              details == product_details(data)
              product_data ==
                  [id |-> p.id, name |-> p.name,
                   rating |-> IF details.rating /= NoneNum
                              THEN details.rating ELSE p.rating,
                   reviews_count |-> p.reviews_count,
                   ingredients |-> details.ingredients]
          IN  products_with_details' =
                  Append(products_with_details, product_data)
    /\ detail_log' = Append(detail_log,
                            [id |-> unique_products[i].id, ok |-> TRUE])
    /\ i' = i + 1
    /\ UNCHANGED <<pc, tokVars, listVars, unique_products, aggVars,
                   fileVars>>

\* the detail loop is over
DetailsDone ==
    /\ pc = "details"
    /\ i > Len(unique_products)
    /\ pc' = "save_raw"
    /\ UNCHANGED <<tokVars, listVars, detailVars, products_with_details,
                   aggVars, fileVars>>

\* data/products_raw.csv, then the call of build_ingredient_stats
SaveRaw ==
    /\ pc = "save_raw"
    /\ products_raw' = [written |-> TRUE, rows |-> products_with_details]
    /\ pc' = "agg_loop"
    /\ UNCHANGED <<tokVars, listVars, detailVars, products_with_details,
                   aggVars, ingredient_report>>

\* data/ingredient_report.csv
WriteReport ==
    /\ pc = "agg_return"
    /\ ingredient_report' = [written |-> TRUE, rows |-> stats]
    /\ pc' = "done"
    /\ UNCHANGED <<tokVars, listVars, detailVars, products_with_details,
                   aggVars, products_raw>>

NoCall == <<0, 0>>    \* no search request yet

NoFile == [written |-> FALSE, rows |-> <<>>]

IdleTok == ingredient_str = NoneStr /\ cleaned = <<>>

IdleMain ==
    /\ term = 1 /\ page = 1 /\ products = <<>> /\ last_items = <<>>
    /\ last_call = NoCall /\ failed_call = NoCall
    /\ all_products = <<>> /\ unique_products = <<>> /\ i = 1
    /\ detail_log = <<>>
    /\ products_raw = NoFile /\ ingredient_report = NoFile

IdleAgg ==
    /\ products_with_details = <<>> /\ p_idx = 1
    /\ ingredient_to_ratings = <<>> /\ stats = <<>>

InitTok ==
    /\ pc = "tok_call"
    /\ ingredient_str \in TokInputs
    /\ cleaned = <<>>
    /\ IdleMain /\ IdleAgg

NextTok == TokEmpty \/ TokNormalize

SpecTok == InitTok /\ [][NextTok]_vars

InitAgg ==
    /\ pc = "agg_loop"
    /\ products_with_details \in AggInputs
    /\ p_idx = 1 /\ ingredient_to_ratings = <<>> /\ stats = <<>>
    /\ IdleMain /\ IdleTok

NextAgg == AggSkip \/ AggAdd \/ AggStats

SpecAgg == InitAgg /\ [][NextAgg]_vars

Init ==
    /\ pc = "search"
    /\ IdleTok /\ IdleMain /\ IdleAgg

Next ==
    \/ SearchFail \/ SearchEmpty \/ SearchItems \/ SearchReturn
    \/ Dedupe \/ DetailFail \/ DetailOk \/ DetailsDone \/ SaveRaw
    \/ AggSkip \/ AggAdd \/ AggStats \/ WriteReport

Spec == Init /\ [][Next]_vars


(***************************************************************************)
(* Claims about normalize_ingredient_string (SpecTok).                     *)
(***************************************************************************)
\* the first positions of the maximal delimiter-free stretches of s
FragmentStarts(s) ==
    {a \in 1..Len(s) : s[a] \notin Delims /\ (a = 1 \/ s[a - 1] \in Delims)}

FragmentEnd(s, a) ==
    CHOOSE b \in a..Len(s) :
        /\ \A k \in a..b : s[k] \notin Delims
        /\ b = Len(s) \/ s[b + 1] \in Delims

\* positions of the stretch starting at a that hold a-z or 0-9 once lowered
AlnumPositions(s, a) ==
    {k \in a..FragmentEnd(s, a) : lower_char(s[k]) \in AlnumLower}

MinOf(S) == CHOOSE x \in S : \A y \in S : x <= y
MaxOf(S) == CHOOSE x \in S : \A y \in S : x >= y

KeptStarts(s) ==
    {a \in FragmentStarts(s) :
        /\ AlnumPositions(s, a) /= {}
        /\ MaxOf(AlnumPositions(s, a)) - MinOf(AlnumPositions(s, a)) + 1 >= 3}

FragmentToken(s, a) ==
    LET lo == MinOf(AlnumPositions(s, a))
        hi == MaxOf(AlnumPositions(s, a))
    IN  [k \in 1..(hi - lo + 1) |-> lower_char(s[lo + k - 1])]

ExpectedTokens(s) ==
    [j \in 1..Cardinality(KeptStarts(s)) |->
        FragmentToken(s, CHOOSE a \in KeptStarts(s) :
                             Cardinality({b \in KeptStarts(s) : b < a}) = j - 1)]

IsEmptyInput(s) == s = NoneStr \/ s = <<>>

\* C4: normalize_ingredient_string returns, in left-to-right order and with
\* duplicates kept, the stretches between runs of ; , / ( ) lower-cased and
\* cut down to their first..last character of a-z0-9, those of length >= 3
\* only; empty, absent and punctuation-only input gives the empty sequence.
C4_TokenizerContract ==
    pc = "tok_return" =>
        /\ IsEmptyInput(ingredient_str) => cleaned = <<>>
        /\ ~IsEmptyInput(ingredient_str) =>
              /\ cleaned = ExpectedTokens(ingredient_str)
              /\ (\A k \in 1..Len(ingredient_str) :
                     lower_char(ingredient_str[k]) \notin AlnumLower)
                 => cleaned = <<>>

TokOil == <<"o","i","l">>
TokAqua == <<"a","q","u","a">>
TokZinc == <<"z","i","n","c">>

C4_Witness ==
    /\ pc = "tok_return"
    /\ ingredient_str = StrOilAquaZinc
    /\ cleaned = <<TokOil, TokAqua, TokAqua, TokZinc>>

TokPh == <<"p","h">>
TokCi == <<"c","i">>
Tok19140 == <<"1","9","1","4","0">>
TokCi19140 == <<"c","i"," ","1","9","1","4","0">>
TokWater == <<"w","a","t","e","r">>

\* C5 as stated: "Water, CI 19140, pH" gives neither "ph" nor "ci" and does
\* give "19140" as a token.
C5_Original ==
    (pc = "tok_return" /\ ingredient_str = StrWaterCI) =>
        /\ TokPh \notin Range(cleaned)
        /\ TokCi \notin Range(cleaned)
        /\ Tok19140 \in Range(cleaned)

\* C5 amended: "Water, CI 19140, pH" gives exactly "water", "ci 19140":
\* neither "ph" nor "ci" nor "19140" is a token, "19140" stays inside the
\* token "ci 19140" because a space is not a delimiter.
C5_Amended ==
    (pc = "tok_return" /\ ingredient_str = StrWaterCI) =>
        /\ cleaned = <<TokWater, TokCi19140>>
        /\ TokPh \notin Range(cleaned)
        /\ TokCi \notin Range(cleaned)
        /\ Tok19140 \notin Range(cleaned)

C5_Witness ==
    /\ pc = "tok_return"
    /\ ingredient_str = StrWaterCI
    /\ TokCi19140 \in Range(cleaned)

(***************************************************************************)
(* Claims about build_ingredient_stats (SpecAgg).                          *)
(***************************************************************************)
\* the tokens of every product of the argument list
TokensOf(ps) ==
    [k \in 1..Len(ps) |-> normalize_ingredient_string(ps[k].ingredients)]

\* product p has a rating and a non-empty ingredient text
Counts(p) ==
    p.rating /= NoneNum /\ p.ingredients /= NoneStr /\ p.ingredients /= <<>>

\* the products that count for token t, T being TokensOf of the list
Contributors(T, t) ==
    {k \in 1..Len(products_with_details) :
        Counts(products_with_details[k]) /\ \E j \in 1..Len(T[k]) : T[k][j] = t}

StatIngredients == {stats[k].ingredient : k \in 1..Len(stats)}

\* the sum of the ratings of the products of K among the first n
RECURSIVE RatingSumUpTo(_, _)
RatingSumUpTo(K, n) ==
    IF n = 0 THEN 0
    ELSE (IF n \in K THEN products_with_details[n].rating ELSE 0)
         + RatingSumUpTo(K, n - 1)

RatingSum(K) == RatingSumUpTo(K, Len(products_with_details))

\* C1: a token has a row iff at least 5 distinct products with a rating and
\* a non-empty ingredient text hold it, a product counting once however
\* often it repeats the token; the token has at most one row.
C1_ThresholdPerProduct ==
    pc = "agg_return" =>
        \A T \in {TokensOf(products_with_details)} :
            /\ \A t \in UNION {Range(T[k]) : k \in 1..Len(T)}
                           \cup StatIngredients :
                   t \in StatIngredients
                       <=> Cardinality(Contributors(T, t)) >= 5
            /\ \A j, k \in 1..Len(stats) :
                   stats[j].ingredient = stats[k].ingredient => j = k

C1_Witness ==
    /\ pc = "agg_return"
    /\ \E T \in {TokensOf(products_with_details)} :
          \E t, u \in UNION {Range(T[k]) : k \in 1..Len(T)} :
              /\ Cardinality(Contributors(T, t)) = 5
              /\ t \in StatIngredients
              /\ Cardinality(Contributors(T, u)) = 4
              /\ u \notin StatIngredients
              /\ \E k \in Contributors(T, t) :
                    Cardinality({j \in 1..Len(T[k]) : T[k][j] = t}) = 2

TokHyaluronic ==
    <<"h","y","a","l","u","r","o","n","i","c"," ","a","c","i","d">>

\* C2: every row's product_count is the number of contributing products and
\* its average is the mean of their ratings to the nearest thousandth; the
\* six-product scenario yields (hyaluronic acid, 5, 4.12).
C2_CountAndMean ==
    pc = "agg_return" =>
        /\ \A T \in {TokensOf(products_with_details)} :
              \A k \in 1..Len(stats) :
                  \A K \in {Contributors(T, stats[k].ingredient)} :
                      \A d \in {stats[k].avg_rating_with_ingredient
                                    * Cardinality(K) - RatingSum(K) * 100} :
                          /\ stats[k].product_count = Cardinality(K)
                          /\ 2 * d <= Cardinality(K)
                          /\ -2 * d <= Cardinality(K)
        /\ products_with_details = Scenario6 =>
              [ingredient |-> TokHyaluronic, product_count |-> 5,
               avg_rating_with_ingredient |-> 4120] \in Range(stats)

C2_Witness ==
    /\ pc = "agg_return"
    /\ \E T \in {TokensOf(products_with_details)} :
          \E k \in 1..Len(stats) :
              /\ stats[k].product_count = 6
              /\ stats[k].avg_rating_with_ingredient * 6
                     > RatingSum(Contributors(T, stats[k].ingredient)) * 100

DictPos(t) ==
    CHOOSE k \in 1..Len(ingredient_to_ratings) :
        ingredient_to_ratings[k].ingredient = t

\* C3: rows are in descending order of average, then of product count, and
\* rows equal on both keep the order of first insertion into the mapping.
C3_SortedStable ==
    pc = "agg_return" =>
        \A j, k \in 1..Len(stats) :
            j < k =>
                LET a == stats[j]
                    b == stats[k]
                IN  \/ a.avg_rating_with_ingredient
                           > b.avg_rating_with_ingredient
                    \/ /\ a.avg_rating_with_ingredient
                              = b.avg_rating_with_ingredient
                       /\ a.product_count > b.product_count
                    \/ /\ a.avg_rating_with_ingredient
                              = b.avg_rating_with_ingredient
                       /\ a.product_count = b.product_count
                       /\ DictPos(a.ingredient) < DictPos(b.ingredient)

C3_Witness ==
    /\ pc = "agg_return"
    /\ Len(stats) = 3
    /\ stats /= compute_stats(ingredient_to_ratings)
    /\ \E j \in 1..2 :
          /\ stats[j].avg_rating_with_ingredient
                 = stats[j + 1].avg_rating_with_ingredient
          /\ stats[j].product_count = stats[j + 1].product_count
    /\ \E j \in 1..2 :
          stats[j].avg_rating_with_ingredient
              > stats[j + 1].avg_rating_with_ingredient

\* the distinct tokens in the order of their first occurrence
RECURSIVE FirstOccurrences(_)
FirstOccurrences(toks) ==
    IF toks = <<>> THEN <<>>
    ELSE LET rest == FirstOccurrences(SubSeq(toks, 1, Len(toks) - 1))
             x == toks[Len(toks)]
         IN  IF x \in Range(rest) THEN rest ELSE Append(rest, x)

\* the mapping of the run that iterates every token set in the order of
\* first occurrence
RECURSIVE ReferenceMapping(_)
ReferenceMapping(ps) ==
    IF ps = <<>> THEN <<>>
    ELSE LET m == ReferenceMapping(SubSeq(ps, 1, Len(ps) - 1))
             p == ps[Len(ps)]
         IN  IF skips_product(p) THEN m
             ELSE append_each(
                      m,
                      FirstOccurrences(
                          normalize_ingredient_string(p.ingredients)),
                      p.rating)

\* C8 as stated: the result is a function of the input list alone, so every
\* run returns what the run iterating in first-occurrence order returns.
C8_Deterministic ==
    pc = "agg_return" =>
        stats = sort_stats(compute_stats(
                    ReferenceMapping(products_with_details)))

(***************************************************************************)
(* Claims about main and fetch_products_for_search_term (Spec).            *)
(***************************************************************************)
AfterDedupe == pc \in {"details", "save_raw", "agg_loop", "agg_return", "done"}

\* the position of the last stub of all_products with the id
LastIndexOf(id) ==
    CHOOSE k \in 1..Len(all_products) :
        /\ all_products[k].id = id
        /\ \A j \in (k + 1)..Len(all_products) : all_products[j].id /= id

\* C6: after deduplication the unique set holds, for every id among the
\* collected stubs, exactly one record, equal to the last stub with that id,
\* and nothing else.
C6_DedupeLastWins ==
    AfterDedupe =>
        /\ \A k \in 1..Len(all_products) :
              \E j \in 1..Len(unique_products) :
                  /\ unique_products[j]
                         = all_products[LastIndexOf(all_products[k].id)]
                  /\ \A h \in 1..Len(unique_products) :
                         unique_products[h].id = all_products[k].id => h = j
        /\ \A j \in 1..Len(unique_products) :
              \E k \in 1..Len(all_products) :
                  all_products[k].id = unique_products[j].id

C6_Witness ==
    /\ AfterDedupe
    /\ Len(unique_products) >= 2
    /\ \E j, k \in 1..Len(all_products) :
          /\ j < k
          /\ all_products[j].id = all_products[k].id
          /\ all_products[j] /= all_products[k]

IdsOf(s) == [k \in 1..Len(s) |-> s[k].id]

\* the ids of the successful detail requests, in request order
RECURSIVE OkIds(_)
OkIds(log) ==
    IF log = <<>> THEN <<>>
    ELSE (IF Head(log).ok THEN <<Head(log).id>> ELSE <<>>) \o OkIds(Tail(log))

\* C7: whatever detail requests fail, a request (failed or not) leaves the
\* run in the detail loop, the run never aborts from there, every unique
\* product is requested once, and the finished run has written both files,
\* products_raw holding one row per successful request and none for a
\* failed one.
C7_DetailFailuresNonFatal ==
    /\ [][Len(detail_log') > Len(detail_log) =>
             pc' = "details" /\ i' = i + 1]_vars
    /\ [](detail_log /= <<>> => pc /= "aborted")
    /\ [](pc \in {"save_raw", "agg_loop", "agg_return", "done"}
             => IdsOf(detail_log) = IdsOf(unique_products))
    /\ [](products_raw.written
             => IdsOf(products_raw.rows) = OkIds(detail_log))
    /\ [](pc = "done" => products_raw.written /\ ingredient_report.written)

C7_Witness ==
    /\ pc = "done"
    /\ products_raw.written /\ ingredient_report.written
    /\ Len(detail_log) >= 2
    /\ ~detail_log[1].ok
    /\ \E k \in 2..Len(detail_log) : detail_log[k].ok

\* the first value that is not null
FirstPresentId(p) == IF p.id /= None THEN p.id ELSE p.productId
FirstPresentRating(p) ==
    IF p.rating /= NoneNum THEN p.rating ELSE p.averageRating

\* the id and rating of the stubs C9 expects for the items of a page
RECURSIVE ExpectedIdRatings(_)
ExpectedIdRatings(items) ==
    IF items = <<>> THEN <<>>
    ELSE (IF FirstPresentId(Head(items)) /= None
             /\ FirstPresentRating(Head(items)) /= NoneNum
          THEN << <<FirstPresentId(Head(items)),
                    FirstPresentRating(Head(items))>> >>
          ELSE <<>>)
         \o ExpectedIdRatings(Tail(items))

IdRatings(s) == [k \in 1..Len(s) |-> <<s[k].id, s[k].rating>>]

\* C9 as stated: a page adds a stub for exactly the items that hold a
\* non-null id (id, else productId) and a non-null rating (rating, else
\* averageRating), with the first non-null value of each.
C9_PresentFieldsKept ==
    [][(pc = "search" /\ page' = page + 1) =>
          IdRatings(SubSeq(products', Len(products) + 1, Len(products')))
              = ExpectedIdRatings(last_items')]_vars


\* C10: once a search request has failed the run is over: that request is
\* the last one made, no detail request is made and no file is written.
C10_ListingFailureAborts ==
    failed_call /= NoCall =>
        /\ pc = "aborted"
        /\ last_call = failed_call
        /\ unique_products = <<>>
        /\ detail_log = <<>>
        /\ products_with_details = <<>>
        /\ ~products_raw.written
        /\ ~ingredient_report.written

C10_Witness ==
    /\ pc = "aborted"
    /\ failed_call = <<2, 2>>
    /\ all_products /= <<>>
    /\ products /= <<>>

====
